---- MODULE Spec2Model ----
(***************************************************************************)
(* The hybrid retrieval store of app/rag/vector_store.py: the Chroma       *)
(* collection, add_texts, delete, ensure_seed_documents and search with    *)
(* its dense path, its two fallbacks and the BM25 re-ranking.              *)
(*                                                                         *)
(* Numbers.  Python floats are modelled in fixed point: a score s is the   *)
(* integer s * One, a distance d the integer d * DistUnit, a raw BM25      *)
(* score and an idf the integer value * 1000.  round(x, 4) is a rounding   *)
(* to a multiple of One / 10000, a tie going away from zero.               *)
(*                                                                         *)
(* Text.  A str is a sequence of one-character strings; str.lower() and    *)
(* str.split() are computed on it.                                         *)
(***************************************************************************)
EXTENDS Integers, Sequences, FiniteSets, TLC

\* ------------------------------------------------------------------ bounds
NumDefault == 3     \* documents of _DEFAULT_CORPUS kept by the model
MaxTopK == 4        \* largest top_k a search is called with
MaxStore == 3       \* largest number of entries the collection holds
MaxBatch == 2       \* largest number of texts / ids of one add_texts or delete

\* ------------------------------------------------------- units and constants
One == 100000               \* the float 1.0
DistUnit == 1000            \* the distance 1.0
CandidateMultiplier == 3    \* candidate_multiplier
MinCandidates == 20         \* floor of n_candidates
DenseWeight == 6            \* 0.6, in tenths
Bm25Weight == 4             \* 0.4, in tenths

Max(a, b) == IF a >= b THEN a ELSE b
Min(a, b) == IF a <= b THEN a ELSE b
Range(s) == {s[i] : i \in DOMAIN s}

\* -------------------------------------------------------------------- text
Alphabet == <<"a", "b", "c", "d", "e", "f">>

Str(w) == <<w>>
Words2(v, w) == <<v, " ", w>>

\* str.lower() on the characters the model uses
LowerChar(c) == IF c = "A" THEN "a" ELSE IF c = "B" THEN "b" ELSE c
Lower(text) == [i \in DOMAIN text |-> LowerChar(text[i])]

IsSpace(c) == c = " "

\* str.split(): the maximal runs of non-whitespace characters, in order
RECURSIVE SplitFrom(_, _, _, _)
SplitFrom(text, i, cur, acc) ==
    IF i > Len(text)
    THEN IF cur = <<>> THEN acc ELSE Append(acc, cur)
    ELSE IF IsSpace(text[i])
         THEN SplitFrom(text, i + 1, <<>>, IF cur = <<>> THEN acc ELSE Append(acc, cur))
         ELSE SplitFrom(text, i + 1, Append(cur, text[i]), acc)
Split(text) == SplitFrom(text, 1, <<>>, <<>>)

Tokenize(text) == Split(Lower(text))

\* ------------------------------------------------------- rank_bm25.BM25Okapi
\* 1000 * ln(n) for n = 1 .. 25, rounded
LnTable == <<0, 693, 1099, 1386, 1609, 1792, 1946, 2079, 2197, 2303, 2398, 2485,
             2565, 2639, 2708, 2773, 2833, 2890, 2944, 2996, 3045, 3091, 3135,
             3178, 3219>>
Ln(n) == LnTable[n]

RECURSIVE SumFun(_, _)
SumFun(f, S) ==
    IF S = {} THEN 0
    ELSE LET x == CHOOSE y \in S : TRUE IN f[x] + SumFun(f, S \ {x})

\* tokenized = [doc["text"].lower().split() for doc in corpus]
Tokenized(corpus) == [i \in DOMAIN corpus |-> Tokenize(corpus[i].text)]

\* BM25._initialize: document lengths, document frequencies nd
TotalLen(tok) == SumFun([i \in DOMAIN tok |-> Len(tok[i])], DOMAIN tok)
Vocabulary(tok) == UNION {Range(tok[i]) : i \in DOMAIN tok}
DocFreq(tok, w) == Cardinality({i \in DOMAIN tok : w \in Range(tok[i])})
TermFreq(doc, w) == Cardinality({j \in DOMAIN doc : doc[j] = w})

\* BM25Okapi._calc_idf: idf = log(N - n + 0.5) - log(n + 0.5), the logarithm of
\* (2(N - n) + 1) / (2n + 1), for a token held by n of N documents
IdfRaw(N, n) == Ln(2 * (N - n) + 1) - Ln(2 * n + 1)

\* average_idf = idf_sum / len(self.idf) divides by zero when no document of the
\* corpus holds a token
Bm25Raises(tok) == Vocabulary(tok) = {}

\* eps = epsilon * average_idf, epsilon = 0.25; raw is the mapping token -> idf
Bm25Eps(raw) == SumFun(raw, DOMAIN raw) \div (4 * Cardinality(DOMAIN raw))

\* self.idf after _calc_idf: a negative idf is replaced by eps
IdfMap(tok) ==
    LET vocab == Vocabulary(tok)
        raw == [w \in vocab |-> IdfRaw(Len(tok), DocFreq(tok, w))]
        eps == Bm25Eps(raw)
    IN  [w \in vocab |-> IF raw[w] < 0 THEN eps ELSE raw[w]]

\* BM25Okapi.get_scores, one query token of frequency qf in a document of
\* length doc_len, in a corpus of N documents and total tokens:
\*   idf * qf * (k1 + 1) / (qf + k1 * (1 - b + b * doc_len / avgdl))
\* with k1 = 1.5, b = 0.75, avgdl = total / N; numerator and denominator are
\* multiplied by 8 * total
Bm25Term(idf, qf, doc_len, N, total) ==
    (idf * (20 * qf * total)) \div (8 * qf * total + 3 * total + 9 * doc_len * N)

\* bm25.get_scores(query.lower().split()); (self.idf.get(q) or 0)
GetScores(tok, query) ==
    LET qtok == Tokenize(query)
        idf == IdfMap(tok)
        total == TotalLen(tok)
    IN  [i \in DOMAIN tok |->
            SumFun([j \in DOMAIN qtok |->
                       Bm25Term(IF qtok[j] \in DOMAIN idf THEN idf[qtok[j]] ELSE 0,
                                TermFreq(tok[i], qtok[j]), Len(tok[i]), Len(tok), total)],
                   DOMAIN qtok)]

SeqMax(s) == CHOOSE m \in Range(s) : \A x \in Range(s) : x <= m

\* ------------------------------------------------------------- _bm25_search
\* normalized_score = float(score / max_score) if max_score > 0 else 0.0
Normalize(score, max_score) ==
    IF max_score > 0 THEN (score * One) \div max_score ELSE 0

Bm25SearchRaises(corpus) == corpus # <<>> /\ Bm25Raises(Tokenized(corpus))

\* the mapping id -> normalized score; a later document of the same id overwrites
Bm25Search(query, corpus) ==
    IF corpus = <<>> THEN <<>>
    ELSE LET scores == GetScores(Tokenized(corpus), query)
             max_score == SeqMax(scores)
             last(id) == CHOOSE i \in DOMAIN corpus :
                            /\ corpus[i].id = id
                            /\ \A j \in DOMAIN corpus : corpus[j].id = id => j <= i
         IN  [id \in {corpus[i].id : i \in DOMAIN corpus} |->
                 Normalize(scores[last(id)], max_score)]

\* bm25_scores.get(doc_id, 0.0)
GetOr(m, key, default) == IF key \in DOMAIN m THEN m[key] ELSE default

\* ------------------------------------------------------------ option values
None == <<>>
Some(x) == <<x>>

\* -------------------------------------------------------------- _DEFAULT_CORPUS
\* The 50 documents are kept as NumDefault documents.  Kept from the real texts:
\* the ids are pairwise distinct, no text is empty, and every token has a
\* positive effective idf (in the 50 texts "and" alone has a negative idf, and
\* the average idf that replaces it is positive), so no raw BM25 score over the
\* default corpus is negative.
DefaultIdTable == <<"jobs_demo#1", "jobs_demo#2", "jobs_demo#3", "jobs_demo#4",
                    "jobs_demo#5", "jobs_demo#6">>
DefaultCorpus ==
    [i \in 1..NumDefault |-> [id |-> DefaultIdTable[i], text |-> Str(Alphabet[i])]]
DefaultIds == {DefaultCorpus[i].id : i \in DOMAIN DefaultCorpus}

\* ------------------------------------------------------------------ scoring
\* _compute_dense_score
ComputeDenseScore(distance) ==
    IF distance <= 0 THEN One ELSE (One * DistUnit) \div (DistUnit + distance)

\* dense_distance = float(distance) if distance is not None else 1.0
DenseDistance(distance) == IF distance = None THEN DistUnit ELSE distance[1]

\* the nearest multiple count of q, a tie going away from zero
RoundQ(x, q) ==
    IF x >= 0 THEN (x + q \div 2) \div q ELSE -((-x + q \div 2) \div q)

Ulp == One \div 10000

\* round(x, 4) of a score
Round4(x) == RoundQ(x, Ulp) * Ulp

\* the two weights exchanged
HybridScoreSwapped(dense_score, bm25_score) ==
    dense_score * Bm25Weight + bm25_score * DenseWeight

\* hybrid_score = (dense_score * 0.6) + (bm25_score * 0.4), in tenths of 1 / One
HybridScore(dense_score, bm25_score) ==
    dense_score * DenseWeight + bm25_score * Bm25Weight

\* round(hybrid_score, 4) of a hybrid score given in tenths of 1 / One
RoundHybrid(h) == RoundQ(h, 10 * Ulp) * Ulp

\* ---------------------------------------------------------------- sequences
\* s[:n] for n >= 0
Take(s, n) == SubSeq(s, 1, Min(n, Len(s)))

\* sorted(s, key = keys, reverse = True): stable, equal keys keep their order
SortedDesc(s, keys) ==
    LET pos(i) == 1 + Cardinality({j \in DOMAIN s :
                        keys[j] > keys[i] \/ (keys[j] = keys[i] /\ j < i)})
    IN  [p \in DOMAIN s |-> s[CHOOSE i \in DOMAIN s : pos(i) = p]]

SortedAsc(s, keys) ==
    LET pos(i) == 1 + Cardinality({j \in DOMAIN s :
                        keys[j] < keys[i] \/ (keys[j] = keys[i] /\ j < i)})
    IN  [p \in DOMAIN s |-> s[CHOOSE i \in DOMAIN s : pos(i) = p]]

\* ------------------------------------------------------------------- search
\* n_candidates = max(top_k * candidate_multiplier, 20)
NCandidates(top_k) == Max(top_k * CandidateMultiplier, MinCandidates)

\* col.query: the n_results entries nearest to the query embedding, by ascending
\* distance; dist[i] is the distance the index reports for entry i
QueryIndex(entries, dist, n_results) ==
    Take(SortedAsc([i \in DOMAIN entries |->
                       [id |-> entries[i].id, text |-> entries[i].text,
                        meta |-> entries[i].meta, distance |-> Some(dist[i])]],
                   dist),
         n_results)

\* meta.get("source") if isinstance(meta, dict) else doc_id
SourceOf(meta, doc_id) == IF meta = None THEN Some(doc_id) ELSE Some(meta[1].source)

\* the loop over zip(ids, docs, metas, distances)
DenseCandidates(hits) ==
    [i \in DOMAIN hits |->
        [id |-> hits[i].id, text |-> hits[i].text,
         dense_score |-> ComputeDenseScore(DenseDistance(hits[i].distance)),
         dense_distance |-> Some(DenseDistance(hits[i].distance)),
         source |-> SourceOf(hits[i].meta, hits[i].id)]]

\* a fallback that takes the default documents as perfect dense matches
FallbackCandidatesDenseOne ==
    [i \in DOMAIN DefaultCorpus |->
        [id |-> DefaultCorpus[i].id, text |-> DefaultCorpus[i].text,
         dense_score |-> One, dense_distance |-> None,
         source |-> Some(DefaultCorpus[i].id)]]

\* the except branch: the default corpus with dense_score 0.0
FallbackCandidates ==
    [i \in DOMAIN DefaultCorpus |->
        [id |-> DefaultCorpus[i].id, text |-> DefaultCorpus[i].text,
         dense_score |-> 0, dense_distance |-> None,
         source |-> Some(DefaultCorpus[i].id)]]

\* an empty-candidate fallback that forgot the slice: the whole default corpus
EmptyFallbackWhole(top_k) ==
    [i \in DOMAIN DefaultCorpus |->
        [id |-> DefaultCorpus[i].id, text |-> DefaultCorpus[i].text,
         source |-> Some(DefaultCorpus[i].id),
         dense_score |-> 0, bm25_score |-> 0, hybrid_score |-> 0, score |-> 0,
         dense_distance |-> None, bm25_raw_score |-> Some(0)]]

\* "if not candidates": _DEFAULT_CORPUS[:top_k] with every score 0.0
EmptyFallback(top_k) ==
    LET docs == Take(DefaultCorpus, top_k)
    IN  [i \in DOMAIN docs |->
            [id |-> docs[i].id, text |-> docs[i].text, source |-> Some(docs[i].id),
             dense_score |-> 0, bm25_score |-> 0, hybrid_score |-> 0, score |-> 0,
             dense_distance |-> None, bm25_raw_score |-> Some(0)]]

\* bm25_corpus = [{"id": doc["id"], "text": doc["text"]} for doc in candidates]
Bm25Corpus(candidates, extra_corpus) ==
    [i \in DOMAIN candidates |-> [id |-> candidates[i].id, text |-> candidates[i].text]]

\* the loop "for candidate in candidates" that builds results
MergeResults(candidates, bm25_scores) ==
    [i \in DOMAIN candidates |->
        LET dense_score == candidates[i].dense_score
            bm25_score == GetOr(bm25_scores, candidates[i].id, 0)
            hybrid_score == HybridScore(dense_score, bm25_score)
        IN  [id |-> candidates[i].id, text |-> candidates[i].text,
             source |-> candidates[i].source,
             dense_score |-> Round4(dense_score),
             bm25_score |-> Round4(bm25_score),
             hybrid_score |-> RoundHybrid(hybrid_score),
             score |-> RoundHybrid(hybrid_score),
             dense_distance |-> candidates[i].dense_distance,
             bm25_raw_score |-> None]]

\* a sort by ascending key whose result is reversed: equal keys change places
RankedByReversal(results) ==
    LET asc == SortedAsc(results, [i \in DOMAIN results |-> results[i].hybrid_score])
    IN  [i \in DOMAIN asc |-> asc[Len(asc) + 1 - i]]

\* a sort that lost reverse = True
RankedAscending(results) ==
    SortedAsc(results, [i \in DOMAIN results |-> results[i].hybrid_score])

\* ranked = sorted(results, key = lambda x: x["hybrid_score"], reverse = True)
Ranked(results) ==
    SortedDesc(results, [i \in DOMAIN results |-> results[i].hybrid_score])

\* a slice that keeps one entry too many
TruncateOffByOne(ranked, top_k) == Take(ranked, top_k + 1)

\* ranked[:top_k]
Truncate(ranked, top_k) == Take(ranked, top_k)

\* a merge that takes the extra documents as further candidates, without
\* looking for their ids among the candidates
RankCandidatesAppendsExtra(query_text, top_k, candidates, extra_corpus) ==
    LET extra == IF extra_corpus = None THEN <<>> ELSE extra_corpus
        all == candidates
                   \o [i \in DOMAIN extra |->
                          [id |-> extra[i].id, text |-> extra[i].text, dense_score |-> 0,
                           dense_distance |-> None, source |-> Some(extra[i].id)]]
    IN  IF all = <<>>
        THEN [status |-> "returned", ret |-> EmptyFallback(top_k)]
        ELSE IF Bm25SearchRaises(Bm25Corpus(all, None))
        THEN [status |-> "raised", ret |-> <<>>]
        ELSE [status |-> "returned",
              ret |-> Truncate(Ranked(MergeResults(all,
                          Bm25Search(query_text, Bm25Corpus(all, None)))), top_k)]

\* search from "if not candidates" on; the outcome is the list returned, or the
\* exception of the lexical scorer
RankCandidates(query_text, top_k, candidates, extra_corpus) ==
    IF candidates = <<>>
    THEN [status |-> "returned", ret |-> EmptyFallback(top_k)]
    ELSE LET bm25_corpus == Bm25Corpus(candidates, extra_corpus)
         IN  IF Bm25SearchRaises(bm25_corpus)
             THEN [status |-> "raised", ret |-> <<>>]
             ELSE [status |-> "returned",
                   ret |-> Truncate(Ranked(MergeResults(candidates,
                               Bm25Search(query_text, bm25_corpus))), top_k)]

\* -------------------------------------------------------------------- state
VARIABLES
    store,      \* the Chroma collection "jobs_demo": its entries, in insertion order
    op,         \* the operation called last
    args,       \* its arguments
    status,     \* "returned" or "raised"
    path,       \* the branch it took
    ret,        \* the value it returned
    life,       \* the ids an earlier add_texts returned and a delete was given
    trace,      \* the calls the operation made to the llm and the retriever
    history,    \* the rows of the table "history", oldest first
    resp,       \* the HTTP request answered last, with its response
    reqs,       \* per /generate request in flight: its position and its locals
    pc,         \* per thread: its position in get_collection()
    cache,      \* the lru_cache of _get_client and of get_collection
    built,      \* how often each of the two was constructed
    got         \* per thread: the client and the collection it obtained

vars == <<store, op, args, status, path, ret, life, trace, history, resp, reqs, pc,
          cache, built, got>>

\* the state outside the collection and its operations
callVars == <<store, op, args, status, path, ret, life, trace>>
apiVars == <<history, resp, reqs>>
threadVars == <<pc, cache, built, got>>

\* ------------------------------------------------------------------- inputs
SuppliedIds == {"id1", "id2"}
UuidTable == <<"uuid-1", "uuid-2", "uuid-3", "uuid-4", "uuid-5", "uuid-6", "uuid-7",
              "uuid-8">>
UserTexts == {Words2("a", "b"), Str("A"), Str(" ")}
AddedTexts == {Words2("a", "b"), Str("A")}
Queries == {Words2("A", "b"), Str(" ")}
Distances == {0, 1999}
\* the extra documents a search is given: none, a document of the request, and
\* documents under ids the index or the default corpus holds as well
ExtraCorpora ==
    {None, <<[id |-> "user_doc#0-0", text |-> Words2("a", "b")]>>,
     <<[id |-> UuidTable[1], text |-> Str("A")],
       [id |-> DefaultIdTable[1], text |-> Str("A")]>>}

StoredIds(entries) == {entries[i].id : i \in DOMAIN entries}

\* ---------------------------------------------------------- search, the action
\* A fault set names the collaborators that fail during the call: "factory" is
\* get_llm_provider() raising in a call that passes no embedder.
SearchComponents == {"factory", "get_collection", "embed", "query"}

\* lines 343-344, outside the try block
SearchSetupRaises(faults) == "factory" \in faults \/ "get_collection" \in faults

\* the try block raises: embedder.embed or col.query failed
SearchDenseRaises(faults) == "embed" \in faults \/ "query" \in faults

\* embedder.embed([hyde_text or query_text]): the text that is embedded; an
\* empty hyde_text is falsy, like None
EmbeddedText(query_text, hyde_text) ==
    IF hyde_text # None /\ hyde_text[1] # <<>> THEN hyde_text[1] ELSE query_text

\* a search that scores lexically the text it embedded
LexicalQueryEmbedded(query_text, hyde_text) ==
    IF hyde_text # None /\ hyde_text[1] # <<>> THEN hyde_text[1] ELSE query_text

\* _bm25_search(query_text, ...): the query the lexical scorer is given
LexicalQuery(query_text, hyde_text) == query_text

\* the calls search makes to its collaborators
EmbedCall(text) == [fn |-> "embedder.embed", by |-> "search", text |-> text]
ScorerCall(query) == [fn |-> "_bm25_search", by |-> "search", query |-> query]

SearchOutcome(query_text, top_k, hyde_text, extra_corpus, faults, dist) ==
    IF SearchSetupRaises(faults)
    THEN [status |-> "raised", path |-> "setup", ret |-> <<>>, calls |-> <<>>]
    ELSE LET dense == ~SearchDenseRaises(faults)
             candidates ==
                 IF dense
                 THEN DenseCandidates(QueryIndex(store, dist, NCandidates(top_k)))
                 ELSE FallbackCandidates
             lexical == LexicalQuery(query_text, hyde_text)
             out == RankCandidates(lexical, top_k, candidates, extra_corpus)
         IN  [status |-> out.status,
              path |-> IF candidates = <<>> THEN "empty"
                       ELSE IF dense THEN "dense" ELSE "fallback",
              ret |-> out.ret,
              calls |-> <<EmbedCall(EmbeddedText(query_text, hyde_text))>>
                            \o (IF candidates = <<>> THEN <<>>
                                ELSE <<ScorerCall(lexical)>>)]

\* search(query_text, top_k = top_k, extra_corpus = extra_corpus), no hyde_text
Search ==
    \E query_text \in Queries, top_k \in 0..MaxTopK, extra_corpus \in ExtraCorpora,
       faults \in SUBSET SearchComponents :
        \E dist \in IF SearchSetupRaises(faults) \/ SearchDenseRaises(faults)
                    THEN {<<>>} ELSE [DOMAIN store -> Distances] :
            LET out == SearchOutcome(query_text, top_k, None, extra_corpus, faults, dist)
            IN  /\ op' = "search"
                /\ args' = [query_text |-> query_text, top_k |-> top_k,
                            extra_corpus |-> extra_corpus]
                /\ status' = out.status
                /\ path' = out.path
                /\ ret' = out.ret
                /\ UNCHANGED store

\* ------------------------------------------------------ chromadb Collection
\* Collection.add validates before it writes: ids and documents of different
\* lengths raise ValueError, an id given twice in the call raises
\* DuplicateIDError.
ColAddRejects(ids, documents) ==
    \/ Len(ids) # Len(documents)
    \/ \E i, j \in DOMAIN ids : i # j /\ ids[i] = ids[j]

\* Collection.add writes the records in order; a record whose id the collection
\* already holds is ignored, without an error.
ColAdd(entries, ids, documents, metadatas) ==
    entries \o SelectSeq([i \in DOMAIN ids |->
                             [id |-> ids[i], text |-> documents[i],
                              meta |-> IF metadatas = None THEN None
                                       ELSE Some(metadatas[i])]],
                         LAMBDA e : e.id \notin StoredIds(entries))

\* a delete with the filter inverted: it keeps the entries it was to remove
ColDeleteInverted(entries, ids) == SelectSeq(entries, LAMBDA e : e.id \in ids)

\* Collection.delete(ids): the entries of these ids leave; an absent id is no error
ColDelete(entries, ids) == SelectSeq(entries, LAMBDA e : e.id \notin ids)

\* Collection.get(ids): the ids among these that the collection holds
ColGetIds(entries, ids) == StoredIds(entries) \cap ids

\* ---------------------------------------------------------------- add_texts
\* _ensure_ids(count): count uuid4 strings, which no earlier id equals; the model
\* takes the first ids of UuidTable that the collection does not hold
EnsureIds(count) ==
    Take(SelectSeq(UuidTable, LAMBDA u : u \notin StoredIds(store)), count)

\* The fault of a call names the first collaborator that fails in it ("none":
\* none does); a raise ends the call, so later collaborators are not reached.
AddTextsFaults == {"none", "factory", "get_collection", "embed", "add"}

\* doc_ids = list(ids) if ids else _ensure_ids(len(texts))
DocIds(texts, ids) == IF ids # None THEN ids ELSE EnsureIds(Len(texts))

\* the outcome of add_texts(texts, metadatas, ids = ids): status, returned ids
\* and the collection after the call
AddTextsOutcome(texts, metadatas, ids, fault) ==
    IF texts = <<>>
    THEN [status |-> "returned", ret |-> <<>>, store |-> store]
    ELSE IF fault \in {"factory", "get_collection", "embed"}
    THEN [status |-> "raised", ret |-> None, store |-> store]
    ELSE LET doc_ids == DocIds(texts, ids)
         IN  IF fault = "add" \/ ColAddRejects(doc_ids, texts)
             THEN [status |-> "raised", ret |-> None, store |-> store]
             ELSE [status |-> "returned", ret |-> doc_ids,
                   store |-> ColAdd(store, doc_ids, texts, metadatas)]

TextBatches == UNION {[1..n -> AddedTexts] : n \in 0..MaxBatch}
IdBatches == UNION {[1..n -> SuppliedIds] : n \in 0..MaxBatch}

AddTexts ==
    \E texts \in TextBatches, ids \in IdBatches, fault \in AddTextsFaults :
        LET out == AddTextsOutcome(texts, None, ids, fault)
        IN  /\ Len(out.store) <= MaxStore
            /\ op' = "add_texts"
            /\ args' = [texts |-> texts, ids |-> ids, fault |-> fault]
            /\ status' = out.status
            /\ path' = "none"
            /\ ret' = out.ret
            /\ store' = out.store

\* ------------------------------------------------------------------- delete
DeleteFaults == {"none", "get_collection", "delete"}

\* get_collection() is called before the try block; a failure of col.delete is
\* logged and swallowed
DeleteOutcome(ids, fault) ==
    IF fault = "get_collection"
    THEN [status |-> "raised", store |-> store]
    ELSE IF fault = "delete"
    THEN [status |-> "returned", store |-> store]
    ELSE [status |-> "returned", store |-> ColDelete(store, ids)]

\* the id sets a delete is called with: ids of the collection and an absent id
DeleteBatches ==
    {ids \in SUBSET (StoredIds(store) \cup {"absent"}) : Cardinality(ids) <= MaxBatch}

Delete ==
    \E ids \in DeleteBatches, fault \in DeleteFaults :
        LET out == DeleteOutcome(ids, fault)
        IN  /\ op' = "delete"
            /\ args' = [ids |-> ids, fault |-> fault]
            /\ status' = out.status
            /\ path' = "none"
            /\ ret' = None
            /\ store' = out.store

\* ------------------------------------------------------ ensure_seed_documents
\* the collaborators that may fail in one call; "factory" is get_llm_provider()
\* raising in a call that passes no embedder
SeedComponents == {"get_collection", "get", "factory", "embed", "add"}

\* existing_ids: the seed ids col.get reports, nothing when col.get raises
ExistingIds(faults) ==
    IF "get" \in faults THEN {} ELSE ColGetIds(store, DefaultIds)

\* the filter inverted: the documents the index already holds
NewDocsInverted(existing_ids) ==
    SelectSeq(DefaultCorpus, LAMBDA doc : doc.id \in existing_ids)

\* new_docs = [doc for doc in _DEFAULT_CORPUS if doc["id"] not in existing_ids]
NewDocs(existing_ids) ==
    SelectSeq(DefaultCorpus, LAMBDA doc : doc.id \notin existing_ids)

EnsureSeedOutcome(faults) ==
    IF "get_collection" \in faults
    THEN [status |-> "raised", path |-> "setup", store |-> store]
    ELSE LET new_docs == NewDocs(ExistingIds(faults))
             ids == [i \in DOMAIN new_docs |-> new_docs[i].id]
             texts == [i \in DOMAIN new_docs |-> new_docs[i].text]
             metadatas == [i \in DOMAIN new_docs |-> [source |-> new_docs[i].id]]
         IN  IF new_docs = <<>>
             THEN [status |-> "returned", path |-> "already", store |-> store]
             ELSE IF "factory" \in faults
             THEN [status |-> "raised", path |-> "factory", store |-> store]
             ELSE IF "embed" \in faults \/ "add" \in faults \/ ColAddRejects(ids, texts)
             THEN [status |-> "returned", path |-> "failed", store |-> store]
             ELSE [status |-> "returned", path |-> "seeded",
                   store |-> ColAdd(store, ids, texts, metadatas)]

EnsureSeedDocuments ==
    \E faults \in SUBSET SeedComponents :
        LET out == EnsureSeedOutcome(faults)
        IN  /\ Len(out.store) <= MaxStore
            /\ op' = "ensure_seed_documents"
            /\ args' = [faults |-> faults]
            /\ status' = out.status
            /\ path' = out.path
            /\ ret' = None
            /\ store' = out.store

\* ------------------------------------- the specification of the collection
\* The collection is persistent (chromadb.PersistentClient on chroma_dir): a
\* process starts on the entries earlier processes left.  They are any of the
\* seeded default documents, in corpus order, followed by user documents of
\* pairwise distinct ids, added with an id of the caller or a generated one.
SeedMeta(id) == [source |-> id]
SeedEntry(i) ==
    [id |-> DefaultCorpus[i].id, text |-> DefaultCorpus[i].text,
     meta |-> Some(SeedMeta(DefaultCorpus[i].id))]
UserEntry(id, text) == [id |-> id, text |-> text, meta |-> None]

SeedParts ==
    {SelectSeq([i \in DOMAIN DefaultCorpus |-> SeedEntry(i)], LAMBDA e : e.id \in keep) :
        keep \in SUBSET DefaultIds}

UserEntriesAt(i) ==
    {UserEntry(id, t) : id \in SuppliedIds \cup {UuidTable[i]}, t \in AddedTexts}

UserParts(n) ==
    {u \in [1..n -> UNION {UserEntriesAt(i) : i \in 1..n}] :
        /\ \A i \in 1..n : u[i] \in UserEntriesAt(i)
        /\ \A i, j \in 1..n : i # j => u[i].id # u[j].id}

PersistedStores ==
    {s \in {sd \o u : sd \in SeedParts, u \in UNION {UserParts(n) : n \in 0..MaxStore}} :
        Len(s) <= MaxStore}

\* ------------------------------------------------------------ other state
NumThreads == 3
Threads == 1..NumThreads

\* no thread has called get_collection() yet and nothing is cached
ThreadInit ==
    /\ pc = [t \in Threads |-> "start"]
    /\ cache = [client |-> None, collection |-> None]
    /\ built = [client |-> 0, collection |-> 0]
    /\ got = [t \in Threads |-> [client |-> None, collection |-> None]]

\* init_db() created the table; no request was answered
NoResponse ==
    [request |-> [method |-> "none", path |-> "none"], status |-> 0, body |-> <<>>]

\* the two requests the model follows through generate
Requests == {"A", "B"}

\* a request that was not sent yet
IdleRequest ==
    [pc |-> "idle", request |-> <<>>, turn_index |-> 0, chunk_ids |-> <<>>,
     bm25_extra |-> <<>>, found |-> {}, passed |-> <<>>, text |-> <<>>,
     deleted |-> <<>>, code |-> 0]

ApiInit ==
    /\ history = <<>>
    /\ resp = NoResponse
    /\ reqs = [r \in Requests |-> IdleRequest]

\* the state a specification of the collection alone leaves as it is
Untouched == trace = <<>> /\ ApiInit /\ ThreadInit

\* no document of the collection was added or deleted by an earlier call
NoLife == [added |-> <<>>, deleted |-> {}, fault |-> "none"]

Init ==
    /\ store \in PersistedStores
    /\ op = "none"
    /\ args = None
    /\ status = "none"
    /\ path = "none"
    /\ ret = None
    /\ life = NoLife
    /\ Untouched

\* one call on the collection the process found
AddTextsCall == op = "none" /\ AddTexts /\ UNCHANGED <<life, trace, apiVars, threadVars>>
DeleteCall == op = "none" /\ Delete /\ UNCHANGED <<life, trace, apiVars, threadVars>>
SeedCall == op = "none" /\ EnsureSeedDocuments /\ UNCHANGED <<life, trace, apiVars, threadVars>>
\* the seeding run again, any number of times
SeedAgain == op = "ensure_seed_documents" /\ EnsureSeedDocuments /\ UNCHANGED <<life, trace, apiVars, threadVars>>

Next == AddTextsCall \/ DeleteCall \/ SeedCall \/ SeedAgain

Spec == Init /\ [][Next]_vars

\* --------------------------------------------- the specification of one search
\* The index contents a search may meet: the first m default documents as
\* seeded followed by user documents added without ids, MaxStore entries at most.
SearchStores ==
    {s \in UNION {{[i \in 1..m |-> SeedEntry(i)]
                      \o [i \in 1..n |-> UserEntry(UuidTable[i], texts[i])] :
                    texts \in [1..n -> UserTexts]} :
                  m \in 0..NumDefault, n \in 0..MaxStore} :
        Len(s) <= MaxStore}

SearchInit ==
    /\ store \in SearchStores
    /\ op = "none"
    /\ args = None
    /\ status = "none"
    /\ path = "none"
    /\ ret = None
    /\ life = NoLife
    /\ Untouched

SearchCall == op = "none" /\ Search /\ UNCHANGED <<life, trace, apiVars, threadVars>>

SearchNext == SearchCall

SearchSpec == SearchInit /\ [][SearchNext]_vars

\* ------------------------- the specification of add, then delete, then search
\* The collection a request finds: empty, holding the first default document,
\* or holding a user document under an id a caller may supply again.
LifeStores ==
    {<<>>, <<SeedEntry(1)>>} \cup {<<UserEntry(id, Str("A"))>> : id \in SuppliedIds}

LifeInit ==
    /\ store \in LifeStores
    /\ op = "none"
    /\ args = None
    /\ status = "none"
    /\ path = "none"
    /\ ret = None
    /\ life = NoLife
    /\ Untouched

\* add_texts stores a batch and returns its ids
LifeAdd ==
    /\ op = "none"
    /\ AddTexts
    /\ life' = [life EXCEPT !.added = ret']
    /\ UNCHANGED <<trace, apiVars, threadVars>>

\* delete is given some of the ids the add returned, as generate gives it the
\* ids of the chunks it indexed
LifeDelete ==
    /\ op = "add_texts" /\ status = "returned" /\ ret # <<>>
    /\ Delete
    /\ args'.ids \subseteq Range(ret)
    /\ life' = [life EXCEPT !.deleted = args'.ids, !.fault = args'.fault]
    /\ UNCHANGED <<trace, apiVars, threadVars>>

\* a later search, with no add in between, once the delete went through
LifeSearch ==
    /\ op = "delete" /\ status = "returned" /\ args.fault = "none"
    /\ Search
    /\ UNCHANGED <<life, trace, apiVars, threadVars>>

LifeNext == LifeAdd \/ LifeDelete \/ LifeSearch

LifeSpec == LifeInit /\ [][LifeNext]_vars

\* ----------------------------------- the specification of the lexical scorer
\* the corpora _bm25_search is given: documents of the user texts, under ids
\* that may repeat
ScorerIds == {"d1", "d2"}
ScorerCorpora ==
    UNION {[1..n -> [id : ScorerIds, text : UserTexts]] : n \in 0..MaxStore}

\* _bm25_search(query, corpus = corpus)
Bm25SearchCall ==
    /\ op = "none"
    /\ \E query \in Queries, corpus \in ScorerCorpora :
           /\ op' = "_bm25_search"
           /\ args' = [query |-> query, corpus |-> corpus]
           /\ status' = IF Bm25SearchRaises(corpus) THEN "raised" ELSE "returned"
           /\ ret' = IF Bm25SearchRaises(corpus) THEN None
                     ELSE Bm25Search(query, corpus)
           /\ path' = "none"
    /\ UNCHANGED <<store, life, trace, apiVars, threadVars>>

ScorerInit ==
    /\ store = <<>>
    /\ op = "none"
    /\ args = None
    /\ status = "none"
    /\ path = "none"
    /\ ret = None
    /\ life = NoLife
    /\ Untouched

ScorerNext == Bm25SearchCall

ScorerSpec == ScorerInit /\ [][ScorerNext]_vars

\* ------------------------------------------------- agents: tools and router
\* str.strip(): the text without its leading and trailing whitespace
RECURSIVE LStrip(_)
LStrip(text) ==
    IF text # <<>> /\ IsSpace(Head(text)) THEN LStrip(Tail(text)) ELSE text

RECURSIVE RStrip(_)
RStrip(text) ==
    IF text # <<>> /\ IsSpace(text[Len(text)])
    THEN RStrip(SubSeq(text, 1, Len(text) - 1)) ELSE text

Strip(text) == RStrip(LStrip(text))

\* the intent labels
INTENTS == <<"normal_chat", "mock_interview", "evaluate_resume", "recommend_job">>

\* An llm is given by the outcomes of its successive chat calls in one run:
\* the reply text, or None when the call raises.
MaxChats == 2
LlmReplies == {<<" ", "a", " ">>, Words2("a", "b")}
LlmOutcomes == {None} \cup {Some(r) : r \in LlmReplies}
Llms == [1..MaxChats -> LlmOutcomes]

\* a retriever raises, finds nothing, or returns a list of search results
RetrieverOutcomes ==
    {[raises |-> TRUE, results |-> <<>>]}
        \cup {[raises |-> FALSE, results |-> r] : r \in {<<>>, EmptyFallback(1)}}

ChatCall(by) == [fn |-> "llm.chat", by |-> by]
RetrieverCall(question, hyde_text) ==
    [fn |-> "retriever", by |-> "recommend_job", question |-> question,
     hyde_text |-> hyde_text]

\* a tool that asks the llm once and returns the stripped reply with its meta:
\* normal_chat without a search client, mock_interview, evaluate_resume
SingleChatTool(llm, tool, meta) ==
    IF llm[1] = None
    THEN [status |-> "raised", calls |-> <<ChatCall(tool)>>, ret |-> None]
    ELSE [status |-> "returned", calls |-> <<ChatCall(tool)>>,
          ret |-> [text |-> Strip(llm[1][1]), meta |-> meta]]

\* a query expansion that swallows the failure and falls back to the question
HydeQuerySwallows(question, llm) ==
    [status |-> "returned", calls |-> <<ChatCall("hyde_query")>>,
     ret |-> IF llm[1] = None THEN question ELSE Strip(llm[1][1])]

\* hyde_query(question, llm = llm): return llm.chat(prompt).strip()
HydeQuery(question, llm) ==
    IF llm[1] = None
    THEN [status |-> "raised", calls |-> <<ChatCall("hyde_query")>>, ret |-> None]
    ELSE [status |-> "returned", calls |-> <<ChatCall("hyde_query")>>,
          ret |-> Strip(llm[1][1])]

\* sources of recommend_job: source = item.get("source") or item.get("id")
Sources(results) ==
    [i \in DOMAIN results |->
        [source |-> IF results[i].source # None THEN results[i].source[1]
                    ELSE results[i].id,
         score |-> results[i].hybrid_score, text |-> results[i].text]]

\* recommend_job(llm, retriever = retriever, question = question)
RecommendJob(llm, retriever, question) ==
    LET synthetic == HydeQuery(question, llm)
        retrieved == synthetic.calls \o <<RetrieverCall(question, synthetic.ret)>>
        answered == retrieved \o <<ChatCall("recommend_job")>>
    IN  IF synthetic.status = "raised"
        THEN [status |-> "raised", calls |-> synthetic.calls, ret |-> None]
        ELSE IF retriever.raises
        THEN [status |-> "raised", calls |-> retrieved, ret |-> None]
        ELSE IF retriever.results = <<>>
        THEN [status |-> "returned", calls |-> retrieved,
              ret |-> [text |-> <<"no roles">>,
                       meta |-> [tool |-> "recommend_job", sources |-> <<>>]]]
        ELSE IF llm[2] = None
        THEN [status |-> "raised", calls |-> answered, ret |-> None]
        ELSE [status |-> "returned", calls |-> answered,
              ret |-> [text |-> Strip(llm[2][1]),
                       meta |-> [tool |-> "recommend_job",
                                 sources |-> Sources(retriever.results)]]]

\* the node the conditional edge of route_intent selects
Handler(state) ==
    CASE state.intent = "normal_chat" ->
             SingleChatTool(state.llm, "normal_chat", [tool |-> "normal_chat"])
      [] state.intent = "mock_interview" ->
             SingleChatTool(state.llm, "mock_interview",
                            [tool |-> "mock_interview", turn_index |-> state.turn_index])
      [] state.intent = "evaluate_resume" ->
             SingleChatTool(state.llm, "evaluate_resume", [tool |-> "evaluate_resume"])
      [] state.intent = "recommend_job" ->
             RecommendJob(state.llm, state.retriever, state.user_input)

\* run_agent(state): route_intent, the node of the intent, compose_reply
RunAgent(state) ==
    LET out == Handler(state)
    IN  [status |-> out.status, calls |-> out.calls,
         ret |-> [handlers |-> <<state.intent>>, result |-> out.ret]]

AgentStates ==
    [intent : Range(INTENTS), llm : Llms, retriever : RetrieverOutcomes,
     user_input : {Words2("A", "b")}, turn_index : {0}]

RunAgentCall ==
    /\ op = "none"
    /\ \E state \in AgentStates :
           LET out == RunAgent(state)
           IN  /\ op' = "run_agent"
               /\ args' = state
               /\ status' = out.status
               /\ ret' = out.ret
               /\ trace' = out.calls
               /\ path' = "none"
    /\ UNCHANGED <<store, life, apiVars, threadVars>>

AgentInit ==
    /\ store = <<>>
    /\ op = "none"
    /\ args = None
    /\ status = "none"
    /\ path = "none"
    /\ ret = None
    /\ life = NoLife
    /\ Untouched

AgentNext == RunAgentCall

AgentSpec == AgentInit /\ [][AgentNext]_vars

\* ------------------------------------------------------------ the HTTP app
\* the routes main.py registers on app
Routes == {<<"GET", "/health">>, <<"GET", "/history">>, <<"POST", "/generate">>}
RoutePaths == {r[2] : r \in Routes}

Respond(request, code, body) == [request |-> request, status |-> code, body |-> body]

\* GET /health
Health ==
    /\ resp' = Respond([method |-> "GET", path |-> "/health"], 200, [status |-> "ok"])
    /\ UNCHANGED history

\* the greatest limit GET /history accepts: Query(20, gt = 0, le = 100)
HistoryLimitMax == 100
MaxLimit == 3

\* order_by(created_at.desc()).limit(limit), then reversed: the last rows, oldest
\* first
RecentRows(rows, limit) == SubSeq(rows, Max(1, Len(rows) - limit + 1), Len(rows))

\* GET /history?limit=
GetHistory ==
    \E limit \in 0..MaxLimit :
        LET request == [method |-> "GET", path |-> "/history", limit |-> limit]
        IN  /\ resp' = IF limit > 0 /\ limit <= HistoryLimitMax
                       THEN Respond(request, 200, RecentRows(history, limit))
                       ELSE Respond(request, 422, <<>>)
            /\ UNCHANGED history

\* the requests POST /generate is sent: the form fields, the text of the
\* uploaded file, and the label intent_router gives the request
GenerateRequests ==
    [method : {"POST"}, path : {"/generate"},
     input : {<<>>, Str(" "), Words2("a", "b")}, file_text : {<<>>, Str("A")},
     web_search : BOOLEAN, return_stream : BOOLEAN, persist_documents : BOOLEAN,
     classified : Range(INTENTS)]

\* "if not request_payload.input.strip() and not file_text.strip()"
GenerateRejects(request) ==
    Strip(request.input) = <<>> /\ Strip(request.file_text) = <<>>

\* generate: a request without text is answered 422. Any other request reaches
\* line 107, text_utils.extract_documents(...): utils/text.py defines
\* extract_document, chunk_text and strip_document_tags only, so the attribute
\* lookup raises AttributeError, which no handler catches: the request is
\* answered 500 and no statement after line 107 runs (no intent is classified,
\* no handler runs, no history row is written).
GenerateOutcome(request) ==
    IF GenerateRejects(request)
    THEN [status |-> 422, handlers |-> <<>>, rows |-> <<>>,
          body |-> [detail |-> "Input text or file is required."]]
    ELSE [status |-> 500, handlers |-> <<>>, rows |-> <<>>,
          body |-> [detail |-> "Internal Server Error"]]

\* POST /generate
Generate ==
    \E request \in GenerateRequests :
        LET out == GenerateOutcome(request)
        IN  /\ resp' = [request |-> request, status |-> out.status,
                        handlers |-> out.handlers, body |-> out.body]
            /\ history' = history \o out.rows

\* the requests the app has no route for: POST /jobs with a job text, and the
\* registered paths under the other method
JobTexts == {<<>>, Words2("a", "b")}
UnroutedRequests ==
    {[method |-> "POST", path |-> "/jobs", text |-> t] : t \in JobTexts}
        \cup {[method |-> m, path |-> q] :
                  m \in {"GET", "POST"}, q \in RoutePaths \cup {"/jobs"}}

\* no route matches: 404 Not Found, or 405 when the path has a route under
\* another method
NoRoute ==
    \E request \in UnroutedRequests :
        /\ <<request.method, request.path>> \notin Routes
        /\ resp' = Respond(request,
                           IF request.path \in RoutePaths THEN 405 ELSE 404,
                           [detail |-> IF request.path \in RoutePaths
                                       THEN "Method Not Allowed" ELSE "Not Found"])
        /\ UNCHANGED history

ApiSpecInit ==
    /\ store = <<>>
    /\ op = "none"
    /\ args = None
    /\ status = "none"
    /\ path = "none"
    /\ ret = None
    /\ life = NoLife
    /\ Untouched

HealthCall == Health /\ UNCHANGED <<reqs, callVars, threadVars>>
GetHistoryCall ==
    GetHistory /\ UNCHANGED <<reqs, callVars, threadVars>>
GenerateCall ==
    Generate /\ UNCHANGED <<reqs, callVars, threadVars>>
NoRouteCall ==
    NoRoute /\ UNCHANGED <<reqs, callVars, threadVars>>

ApiNext == HealthCall \/ GetHistoryCall \/ GenerateCall \/ NoRouteCall

ApiSpec == ApiSpecInit /\ [][ApiNext]_vars

\* ------------------------------------ get_collection() called by several threads
\* functools.lru_cache looks the key up, and on a miss calls the function and
\* then stores the result unless the key was stored meanwhile; it holds no lock
\* while the function runs, so other threads run between the miss and the call
\* returning. A caller always gets the result of its own call.

\* get_collection(): the lookup in its cache
CollectionLookup(t) ==
    /\ pc[t] = "start"
    /\ IF cache.collection # None
       THEN /\ got' = [got EXCEPT ![t].collection = cache.collection]
            /\ pc' = [pc EXCEPT ![t] = "done"]
       ELSE /\ pc' = [pc EXCEPT ![t] = "get_client"]
            /\ UNCHANGED got
    /\ UNCHANGED <<cache, built>>

\* client = _get_client(): the lookup in its cache
ClientLookup(t) ==
    /\ pc[t] = "get_client"
    /\ IF cache.client # None
       THEN /\ got' = [got EXCEPT ![t].client = cache.client]
            /\ pc' = [pc EXCEPT ![t] = "create_collection"]
       ELSE /\ pc' = [pc EXCEPT ![t] = "construct_client"]
            /\ UNCHANGED got
    /\ UNCHANGED <<cache, built>>

\* chromadb.PersistentClient(path = ...) returns a new client; the cache keeps
\* the first one stored
ConstructClient(t) ==
    /\ pc[t] = "construct_client"
    /\ LET client == Some(built.client + 1)
       IN  /\ built' = [built EXCEPT !.client = @ + 1]
           /\ got' = [got EXCEPT ![t].client = client]
           /\ cache' = IF cache.client = None
                        THEN [cache EXCEPT !.client = client] ELSE cache
    /\ pc' = [pc EXCEPT ![t] = "create_collection"]

\* client.get_or_create_collection(name = COLLECTION_NAME) returns a new
\* Collection object; the cache keeps the first one stored
CreateCollection(t) ==
    /\ pc[t] = "create_collection"
    /\ LET collection == Some(built.collection + 1)
       IN  /\ built' = [built EXCEPT !.collection = @ + 1]
           /\ got' = [got EXCEPT ![t].collection = collection]
           /\ cache' = IF cache.collection = None
                        THEN [cache EXCEPT !.collection = collection] ELSE cache
    /\ pc' = [pc EXCEPT ![t] = "done"]

ThreadSpecInit ==
    /\ store = <<>>
    /\ op = "none"
    /\ args = None
    /\ status = "none"
    /\ path = "none"
    /\ ret = None
    /\ life = NoLife
    /\ Untouched

ThreadStep(t) ==
    \/ CollectionLookup(t)
    \/ ClientLookup(t)
    \/ ConstructClient(t)
    \/ CreateCollection(t)

ThreadNext ==
    /\ \E t \in Threads : ThreadStep(t)
    /\ UNCHANGED <<callVars, apiVars>>

ThreadSpec == ThreadSpecInit /\ [][ThreadNext]_vars

\* ---------------------------------------------------------------- on_startup
\* the call that fails while the application starts ("none": none does)
StartupFaults == {"none", "init_db", "_get_client", "get_or_create_collection"}

\* on_startup(): init_db(), then vector_store.get_collection() in a try whose
\* except logs a warning. A get_collection() that returns fills the two caches,
\* one that fails in get_or_create_collection leaves the client cached. The
\* collection is opened or created, and nothing is added to it.
OnStartup ==
    \E fault \in StartupFaults :
        /\ op' = "on_startup"
        /\ args' = [fault |-> fault]
        /\ status' = IF fault = "init_db" THEN "raised" ELSE "returned"
        /\ path' = IF fault = "none" THEN "warmed" ELSE "failed"
        /\ ret' = None
        /\ cache' = CASE fault = "none" ->
                             [client |-> Some(1), collection |-> Some(1)]
                      [] fault = "get_or_create_collection" ->
                             [client |-> Some(1), collection |-> None]
                      [] OTHER -> cache
        /\ built' = CASE fault = "none" -> [client |-> 1, collection |-> 1]
                      [] fault = "get_or_create_collection" ->
                             [client |-> 1, collection |-> 0]
                      [] OTHER -> built
        /\ UNCHANGED store

\* the application starts on the collection earlier processes left
StartupInit ==
    /\ store \in SearchStores
    /\ op = "none"
    /\ args = None
    /\ status = "none"
    /\ path = "none"
    /\ ret = None
    /\ life = NoLife
    /\ Untouched

OnStartupCall ==
    /\ op = "none"
    /\ OnStartup
    /\ UNCHANGED <<life, trace, apiVars, pc, got>>

\* the first search after a startup that obtained the collection; the cached
\* get_collection() cannot fail in it
FirstSearch ==
    /\ op = "on_startup" /\ status = "returned" /\ cache.collection # None
    /\ Search
    /\ path' # "setup"
    /\ UNCHANGED <<life, trace, apiVars, threadVars>>

StartupNext == OnStartupCall \/ FirstSearch

StartupSpec == StartupInit /\ [][StartupNext]_vars

\* ---------------------------------------------------------------- chunk_text
MaxTextLen == 4       \* longest text chunk_text is called with
MaxChunkSize == 3     \* largest chunk_size
MaxOverlap == 3       \* largest overlap
\* a call that returns appends at most one chunk per character; the model
\* follows a call for one pass more
MaxChunks == MaxTextLen + 1

\* the defaults of chunk_text
DefaultChunkSize == 800
DefaultOverlap == 100

\* end = min(length, start + chunk_size)
ChunkEnd(text, start, chunk_size) == Min(Len(text), start + chunk_size)

\* text[start:end], offsets from 0
Slice(text, start, end) == SubSeq(text, start + 1, end)

\* start = max(0, end - overlap)
NextStart(end, overlap) == Max(0, end - overlap)

\* chunk_text(text, chunk_size, overlap) from the loop test on, at offset start;
\* defined when overlap < chunk_size
RECURSIVE ChunksFrom(_, _, _, _)
ChunksFrom(text, start, chunk_size, overlap) ==
    IF start >= Len(text) THEN <<>>
    ELSE LET end == ChunkEnd(text, start, chunk_size)
         IN  <<Slice(text, start, end)>>
                 \o (IF end = Len(text) THEN <<>>
                     ELSE ChunksFrom(text, NextStart(end, overlap), chunk_size, overlap))

\* chunk_text(text) with the default chunk_size and overlap
ChunkText(text) ==
    IF text = <<>> THEN <<>> ELSE ChunksFrom(text, 0, DefaultChunkSize, DefaultOverlap)

\* The call as a loop. ret holds the chunks appended so far, each with the
\* offset it was cut at; the offset of the next pass follows from the last one.
ChunkTexts == {SubSeq(Alphabet, 1, n) : n \in 0..MaxTextLen}

LoopStart(chunks, overlap) ==
    IF chunks = <<>> THEN 0
    ELSE NextStart(chunks[Len(chunks)].start + Len(chunks[Len(chunks)].text), overlap)

\* chunk_text(text, chunk_size, overlap) up to the first loop test
ChunkTextCall ==
    /\ op = "none"
    /\ \E text \in ChunkTexts, chunk_size \in 1..MaxChunkSize, overlap \in 0..MaxOverlap :
           /\ op' = "chunk_text"
           /\ args' = [text |-> text, chunk_size |-> chunk_size, overlap |-> overlap]
           /\ status' = IF text = <<>> THEN "returned" ELSE "running"
    /\ ret' = <<>>
    /\ path' = "none"
    /\ UNCHANGED <<store, life, trace, apiVars, threadVars>>

\* one pass of the while loop
ChunkLoop ==
    /\ op = "chunk_text" /\ status = "running"
    /\ Len(ret) < MaxChunks
    /\ LET start == LoopStart(ret, args.overlap)
           end == ChunkEnd(args.text, start, args.chunk_size)
       IN  IF start >= Len(args.text)
           THEN status' = "returned" /\ ret' = ret
           ELSE /\ ret' = Append(ret, [start |-> start, text |-> Slice(args.text, start, end)])
                /\ status' = IF end = Len(args.text) THEN "returned" ELSE "running"
    /\ UNCHANGED <<store, op, args, path, life, trace, apiVars, threadVars>>

ChunkInit ==
    /\ store = <<>>
    /\ op = "none"
    /\ args = None
    /\ status = "none"
    /\ path = "none"
    /\ ret = None
    /\ life = NoLife
    /\ Untouched

ChunkNext == ChunkTextCall \/ ChunkLoop

\* a call that is in its loop goes on
ChunkSpec == ChunkInit /\ [][ChunkNext]_vars /\ WF_vars(ChunkLoop)

\* ------------------------------------------------ the retriever of generate
DefaultTopK == 4      \* the default top_k of search

\* the override texts a search is given: none, an empty one (a reply of the
\* llm that was all whitespace), and a text no document holds
HydeTexts == {None, Some(<<>>), Some(Words2("c", "d"))}

\* the chunks of the request that generate hands on as bm25_extra
Bm25Extras == {<<>>} \cup (ExtraCorpora \ {None})

\* retriever(question, hyde_text): vector_store.search(question,
\* hyde_text = hyde_text, extra_corpus = bm25_extra if bm25_extra else None,
\* embedder = llm); the embedder is passed, so no provider factory is called
Retriever(question, hyde_text, bm25_extra, faults, dist) ==
    SearchOutcome(question, DefaultTopK, hyde_text,
                  IF bm25_extra = <<>> THEN None ELSE bm25_extra, faults, dist)

RetrieverComponents == {"get_collection", "embed", "query"}

\* the distances the index may report when the dense query is reached
IndexDistances(faults) ==
    IF SearchSetupRaises(faults) \/ SearchDenseRaises(faults)
    THEN {<<>>} ELSE [DOMAIN store -> Distances]

\* the retriever called alone
RetrieveCall ==
    /\ op = "none"
    /\ \E question \in Queries, hyde_text \in HydeTexts, bm25_extra \in Bm25Extras,
          faults \in SUBSET RetrieverComponents :
           \E dist \in IndexDistances(faults) :
               LET out == Retriever(question, hyde_text, bm25_extra, faults, dist)
               IN  /\ op' = "retriever"
                   /\ args' = [query_text |-> question, hyde_text |-> hyde_text,
                               bm25_extra |-> bm25_extra]
                   /\ status' = out.status
                   /\ path' = out.path
                   /\ ret' = out.ret
                   /\ trace' = out.calls
    /\ UNCHANGED <<store, life, apiVars, threadVars>>

\* the llm of a recommendation: its first reply is the hypothetical answer, all
\* whitespace or a text no document holds, its second reply the answer
HydeReplies == {<<" ">>, <<" ", "c", " ", "d">>}
AnswerReplies == {Words2("e", "f")}
RecommendLlms ==
    {<<h, a>> : h \in {None} \cup {Some(r) : r \in HydeReplies},
                a \in {None} \cup {Some(r) : r \in AnswerReplies}}

\* recommend_job(llm, retriever = retriever, question = question) with the
\* retriever of generate
RecommendOutcome(llm, question, bm25_extra, faults, dist) ==
    LET synthetic == HydeQuery(question, llm)
        found == Retriever(question, Some(synthetic.ret), bm25_extra, faults, dist)
        retriever == IF synthetic.status = "raised"
                     THEN [raises |-> TRUE, results |-> <<>>]
                     ELSE [raises |-> found.status = "raised", results |-> found.ret]
        out == RecommendJob(llm, retriever, question)
    IN  [status |-> out.status, ret |-> out.ret, calls |-> out.calls,
         path |-> IF synthetic.status = "raised" THEN "none" ELSE found.path]

RecommendCall ==
    /\ op = "none"
    /\ \E llm \in RecommendLlms, bm25_extra \in Bm25Extras,
          faults \in SUBSET RetrieverComponents :
           \E dist \in IndexDistances(faults) :
               LET out == RecommendOutcome(llm, Words2("A", "b"), bm25_extra, faults, dist)
               IN  /\ op' = "recommend_job"
                   /\ args' = [llm |-> llm, question |-> Words2("A", "b"),
                               bm25_extra |-> bm25_extra]
                   /\ status' = out.status
                   /\ path' = out.path
                   /\ ret' = out.ret
                   /\ trace' = out.calls
    /\ UNCHANGED <<store, life, apiVars, threadVars>>

\* the collections a recommendation meets: empty, seeded, and with documents
\* of users
RetrieverStores ==
    {<<>>, <<SeedEntry(1)>>, [i \in 1..NumDefault |-> SeedEntry(i)],
     <<SeedEntry(1), UserEntry(UuidTable[1], Words2("a", "b"))>>,
     <<UserEntry(UuidTable[1], Str("A")), UserEntry(UuidTable[2], Words2("a", "b"))>>,
     <<UserEntry(UuidTable[1], Str(" "))>>}

RetrieverInit ==
    /\ store \in RetrieverStores
    /\ op = "none"
    /\ args = None
    /\ status = "none"
    /\ path = "none"
    /\ ret = None
    /\ life = NoLife
    /\ Untouched

RetrieverNext == RetrieveCall \/ RecommendCall

RetrieverSpec == RetrieverInit /\ [][RetrieverNext]_vars

\* ------------------------------------------- generate, from line 108 on
\* The handler of POST /generate as it is written after line 107. Which
\* requests get there is the matter of GenerateOutcome above: in the repository
\* as it stands the call at line 107 raises, so none does. The steps below take
\* up a request where line 107 has returned the documents its input holds; the
\* inputs hold no <document> tag, so that list is empty and
\* strip_document_tags leaves the input as it is.
\*
\* generate is a coroutine on the event loop of the app, and every call it
\* makes between two awaits is synchronous: another request runs only while
\* this one waits at an await. After the file was read (line 102) the one
\* await is the web search of line 141.
RequestFaults == {"none", "intent", "add_texts", "agent", "commit"}

\* the requests followed through the handler: form fields, text of the uploaded
\* file, the label intent_router gives, and the collaborator that fails
HandledRequests ==
    {q \in [input : {Str(" "), Words2("A", "b")}, file_text : {<<>>, Str("A")},
            web_search : BOOLEAN, persist_documents : BOOLEAN,
            classified : {"mock_interview", "recommend_job"}, fault : RequestFaults] :
        /\ q.file_text = <<>> => ~q.persist_documents /\ q.fault # "add_texts"
        /\ q.input = Str(" ") =>
               /\ q.fault = "none" /\ ~q.web_search /\ ~q.persist_documents
               /\ q.classified = "mock_interview"}

\* existing_docs after lines 107 to 109
ExistingDocs(request) ==
    IF request.file_text # <<>> THEN <<request.file_text>> ELSE <<>>

\* combined_input: the user text, then each document that is not blank between
\* its tags, on a line of its own
RECURSIVE CombinedInput(_, _)
CombinedInput(user_text, docs) ==
    IF docs = <<>> THEN user_text
    ELSE LET doc_content == Strip(Head(docs))
             tagged == (IF user_text # <<>> THEN <<"\n">> ELSE <<>>)
                           \o <<"<document>", "\n">> \o doc_content
                           \o <<"\n", "</document>">>
         IN  CombinedInput(IF doc_content = <<>> THEN user_text
                           ELSE user_text \o tagged, Tail(docs))

\* "\n\n".join(existing_docs).strip()
RECURSIVE JoinDocs(_)
JoinDocs(docs) ==
    IF docs = <<>> THEN <<>>
    ELSE IF Len(docs) = 1 THEN docs[1]
    ELSE docs[1] \o <<"\n", "\n">> \o JoinDocs(Tail(docs))

DocumentsJoined(request) == Strip(JoinDocs(ExistingDocs(request)))

\* text_utils.strip_document_tags(request_payload.input).strip()
UserText(request) == Strip(request.input)

\* user_text or combined_input
UserInput(request) ==
    IF UserText(request) # <<>> THEN UserText(request)
    ELSE CombinedInput(UserText(request), ExistingDocs(request))

\* _count_intent(messages, intent)
CountIntent(messages, intent) ==
    Cardinality({i \in DOMAIN messages :
                    messages[i].intent = intent /\ messages[i].role = "assistant"})

\* turn_index = _count_intent(past_messages, "mock_interview"), past_messages
\* being every row of the table
TurnIndex(past_messages) == CountIntent(past_messages, "mock_interview")

\* _maybe_search awaits the web search when it is asked for and the seed
\* (user_text or documents_joined) is not blank
AwaitsSearch(request) ==
    /\ request.web_search
    /\ Strip(IF UserText(request) # <<>> THEN UserText(request)
             ELSE DocumentsJoined(request)) # <<>>

\* a request waits at an await, was not sent, or was answered: the event loop
\* may run another request
Suspended(at) == at \in {"idle", "web_search", "done"}

\* the event loop runs one coroutine at a time
Runs(r) == \A q \in Requests \ {r} : Suspended(reqs[q].pc)

\* lines 104 to 141: the 422 check, the history read, the intent
Receive(r) ==
    /\ reqs[r].pc = "idle"
    /\ Runs(r)
    /\ \E request \in HandledRequests :
           LET sent == [reqs EXCEPT ![r].request = request]
               read == [sent EXCEPT ![r].turn_index = TurnIndex(history)]
           IN  reqs' =
                   IF GenerateRejects(request)
                   THEN [sent EXCEPT ![r].pc = "done", ![r].code = 422]
                   ELSE IF request.fault = "intent"
                   THEN [read EXCEPT ![r].pc = "done", ![r].code = 500]
                   ELSE [read EXCEPT ![r].pc = IF AwaitsSearch(request)
                                               THEN "web_search" ELSE "index"]
    /\ UNCHANGED <<store, history>>

\* line 141: web_search.web_search returns; its failures are swallowed
Resume(r) ==
    /\ reqs[r].pc = "web_search"
    /\ Runs(r)
    /\ reqs' = [reqs EXCEPT ![r].pc = "index"]
    /\ UNCHANGED <<store, history>>

\* f"user_doc#{doc_index}-{chunk_index}" for the one document of a request and
\* its first chunks
UserDocSources == <<<<"user_doc#0-0", "user_doc#0-1">>>>

\* the chunks of the documents, in order, and their sources
RECURSIVE DocChunks(_, _)
DocChunks(docs, doc_index) ==
    IF docs = <<>> THEN <<>>
    ELSE LET chunks == ChunkText(Head(docs))
         IN  [chunk_index \in DOMAIN chunks |->
                 [text |-> chunks[chunk_index],
                  meta |-> [source |-> UserDocSources[doc_index + 1][chunk_index],
                            type |-> "document"]]]
                 \o DocChunks(Tail(docs), doc_index + 1)

\* the uuid4 strings _ensure_ids draws in add_texts: no id of the collection
\* and no id an earlier request was given equals them
DrawnIds(count) ==
    Take(SelectSeq(UuidTable,
                   LAMBDA u : /\ u \notin StoredIds(store)
                              /\ \A q \in Requests : u \notin Range(reqs[q].chunk_ids)),
         count)

\* lines 143 to 171: the chunks of the documents are added to the index; a
\* failure of add_texts is logged and the request goes on without them
Index(r) ==
    /\ reqs[r].pc = "index"
    /\ Runs(r)
    /\ LET request == reqs[r].request
           found == IF DocumentsJoined(request) = <<>> THEN <<>>
                    ELSE DocChunks(ExistingDocs(request), 0)
           chunks == [i \in DOMAIN found |-> found[i].text]
           metadatas == [i \in DOMAIN found |-> found[i].meta]
           out == AddTextsOutcome(chunks, metadatas, DrawnIds(Len(chunks)),
                                  IF request.fault = "add_texts" THEN "embed" ELSE "none")
       IN  IF chunks = <<>> \/ out.status = "raised"
           THEN /\ reqs' = [reqs EXCEPT ![r].pc = "agent"]
                /\ UNCHANGED store
           ELSE /\ reqs' = [reqs EXCEPT ![r].pc = "agent", ![r].chunk_ids = out.ret,
                                        ![r].bm25_extra =
                                            [i \in DOMAIN found |->
                                                [id |-> found[i].meta.source,
                                                 text |-> found[i].text]]]
                /\ store' = out.store
    /\ UNCHANGED history

\* the llm of a request: both replies, or a first chat call that raises
RequestLlm(request) ==
    IF request.fault = "agent" THEN <<None, None>>
    ELSE <<Some(<<" ", "c", " ", "d">>), Some(Words2("e", "f"))>>

\* run_agent(agent_state) with the retriever closure of lines 173 to 179
AgentOutcome(request, turn_index, bm25_extra, dist) ==
    LET llm == RequestLlm(request)
        synthetic == HydeQuery(UserInput(request), llm)
        found == Retriever(UserInput(request), Some(synthetic.ret), bm25_extra, {}, dist)
        retriever == IF request.classified # "recommend_job" \/ synthetic.status = "raised"
                     THEN [raises |-> TRUE, results |-> <<>>]
                     ELSE [raises |-> found.status = "raised", results |-> found.ret]
        out == RunAgent([intent |-> request.classified, llm |-> llm,
                         retriever |-> retriever, user_input |-> UserInput(request),
                         turn_index |-> turn_index])
    IN  [status |-> out.status, ret |-> out.ret,
         found |-> IF request.classified = "recommend_job" /\ synthetic.status = "returned"
                   THEN {found.ret[i].id : i \in DOMAIN found.ret} ELSE {}]

\* "if chunk_ids and not request_payload.persist_documents:
\*      vector_store.delete(chunk_ids)"
Cleanup(r, entries) ==
    IF reqs[r].chunk_ids # <<>> /\ ~reqs[r].request.persist_documents
    THEN [store |-> ColDelete(entries, Range(reqs[r].chunk_ids)),
          deleted |-> Some(Range(reqs[r].chunk_ids))]
    ELSE [store |-> entries, deleted |-> None]

\* lines 173 to 198: the agent runs; when it raises, the chunks of the request
\* are deleted and the request is answered 500
Agent(r) ==
    /\ reqs[r].pc = "agent"
    /\ Runs(r)
    /\ \E dist \in [DOMAIN store -> Distances] :
           LET request == reqs[r].request
               out == AgentOutcome(request, reqs[r].turn_index, reqs[r].bm25_extra, dist)
               called == [reqs EXCEPT ![r].found = out.found,
                                      ![r].passed =
                                          IF request.classified = "mock_interview"
                                          THEN Some(reqs[r].turn_index) ELSE None]
           IN  IF out.status = "raised"
               THEN /\ reqs' = [called EXCEPT ![r].pc = "done", ![r].code = 500,
                                              ![r].deleted = Cleanup(r, store).deleted]
                    /\ store' = Cleanup(r, store).store
               ELSE /\ reqs' = [called EXCEPT ![r].pc = "reply",
                                              ![r].text = out.ret.result.text]
                    /\ UNCHANGED store
    /\ UNCHANGED history

\* a session that keeps the user row when the commit raises
HistoryAfterKeepsUserRow(rows, request, response_text, committed) ==
    rows \o <<[role |-> "user", intent |-> request.classified,
               content |-> CombinedInput(UserText(request), ExistingDocs(request))]>>
         \o (IF committed
             THEN <<[role |-> "assistant", intent |-> request.classified,
                     content |-> response_text]>>
             ELSE <<>>)

\* the table after db.add_all([user_entry, assistant_entry]) and db.commit():
\* both rows, or none when the commit raises
HistoryAfter(rows, request, response_text, committed) ==
    IF committed
    THEN rows \o <<[role |-> "user", intent |-> request.classified,
                    content |-> CombinedInput(UserText(request), ExistingDocs(request))],
                   [role |-> "assistant", intent |-> request.classified,
                    content |-> response_text]>>
    ELSE rows

\* lines 200 to 234: the two history rows are committed, the chunks of the
\* request are deleted, the response is returned; a commit that raises ends the
\* request there
Reply(r) ==
    /\ reqs[r].pc = "reply"
    /\ Runs(r)
    /\ LET request == reqs[r].request
           committed == request.fault # "commit"
       IN  /\ history' = HistoryAfter(history, request, reqs[r].text, committed)
           /\ IF committed
              THEN /\ reqs' = [reqs EXCEPT ![r].pc = "done", ![r].code = 200,
                                           ![r].deleted = Cleanup(r, store).deleted]
                   /\ store' = Cleanup(r, store).store
              ELSE /\ reqs' = [reqs EXCEPT ![r].pc = "done", ![r].code = 500]
                   /\ UNCHANGED store

RequestStores == {<<>>, <<SeedEntry(1)>>}

RequestInit ==
    /\ store \in RequestStores
    /\ op = "none"
    /\ args = None
    /\ status = "none"
    /\ path = "none"
    /\ ret = None
    /\ life = NoLife
    /\ Untouched

RequestIdle == <<op, args, status, path, ret, life, trace, resp, threadVars>>

ReceiveStep == \E r \in Requests : Receive(r) /\ UNCHANGED RequestIdle
ResumeStep == \E r \in Requests : Resume(r) /\ UNCHANGED RequestIdle
IndexStep == \E r \in Requests : Index(r) /\ UNCHANGED RequestIdle
AgentStep == \E r \in Requests : Agent(r) /\ UNCHANGED RequestIdle
ReplyStep == \E r \in Requests : Reply(r) /\ UNCHANGED RequestIdle

RequestNext == ReceiveStep \/ ResumeStep \/ IndexStep \/ AgentStep \/ ReplyStep

RequestSpec == RequestInit /\ [][RequestNext]_vars

\* ================================================================== claims
Searched == op = "search"
SearchReturned == op = "search" /\ status = "returned"
RetIds == {ret[i].id : i \in DOMAIN ret}

\* C1: search never raises: whatever collaborators fail (provider factory,
\* get_collection, embedding, vector query, lexical scorer), every call of
\* search returns a list.
C1_SearchNeverRaises == Searched => status = "returned"

\* C2: when the try block of search fails (the query embedding or the vector
\* query raises) and top_k > 0, search returns a non-empty list of exactly
\* min(top_k, size of the default corpus) entries, each with an id of the
\* default corpus and dense_score 0.0.
C2_FallbackTotality ==
    (Searched /\ path = "fallback" /\ args.top_k > 0) =>
        /\ status = "returned"
        /\ ret # <<>>
        /\ Len(ret) = Min(args.top_k, Len(DefaultCorpus))
        /\ \A i \in DOMAIN ret : ret[i].id \in DefaultIds /\ ret[i].dense_score = 0

\* a fallback search that returned the whole default corpus, one entry of it a
\* lexical match
C2_Witness ==
    /\ SearchReturned /\ path = "fallback"
    /\ args.top_k > Len(DefaultCorpus)
    /\ Len(ret) = Len(DefaultCorpus)
    /\ \E i \in DOMAIN ret : ret[i].bm25_score > 0

\* C3: the list search returns has at most top_k entries, and is empty for
\* top_k = 0, on the dense path and on both fallbacks.
C3_Truncation ==
    SearchReturned => Len(ret) <= args.top_k /\ (args.top_k = 0 => ret = <<>>)

\* a dense search whose candidates outnumber top_k
C3_Witness ==
    /\ SearchReturned /\ path = "dense"
    /\ args.top_k > 0 /\ Len(store) > args.top_k /\ Len(ret) = args.top_k

\* C4: in every list search returns, each entry's hybrid_score is at least the
\* next entry's.
C4_Ordering ==
    SearchReturned =>
        \A i \in 1..(Len(ret) - 1) : ret[i].hybrid_score >= ret[i + 1].hybrid_score

\* a dense search in which the lexical score moved a farther document first
C4_Witness ==
    /\ SearchReturned /\ path = "dense" /\ Len(ret) >= 2
    /\ ret[1].hybrid_score > ret[2].hybrid_score
    /\ ret[1].dense_score < ret[2].dense_score

\* C5: every entry search returns has 0.0 <= dense_score <= 1.0 and
\* 0.0 <= bm25_score <= 1.0.
C5_ScoreBounds ==
    SearchReturned =>
        \A i \in DOMAIN ret :
            /\ 0 <= ret[i].dense_score /\ ret[i].dense_score <= One
            /\ 0 <= ret[i].bm25_score /\ ret[i].bm25_score <= One

\* C6 as claimed: hybrid_score is round(dense_score * 0.6 + bm25_score * 0.4, 4)
\* of the dense_score and bm25_score the same entry returns, and score equals
\* hybrid_score.
C6_HybridOfReturnedFields ==
    SearchReturned =>
        \A i \in DOMAIN ret :
            /\ ret[i].hybrid_score =
                   RoundHybrid(ret[i].dense_score * DenseWeight + ret[i].bm25_score * Bm25Weight)
            /\ ret[i].score = ret[i].hybrid_score

\* the scores that round(x, 4) maps to v
Unrounded(v) == {x \in (v - Ulp)..(v + Ulp) : Round4(x) = v}

\* C6 as amended: hybrid_score is round(d * 0.6 + b * 0.4, 4) of the unrounded
\* dense and lexical scores d and b of the entry, the returned dense_score and
\* bm25_score being round(d, 4) and round(b, 4); score equals hybrid_score.
C6_HybridOfUnrounded ==
    SearchReturned =>
        \A i \in DOMAIN ret :
            /\ \E d \in Unrounded(ret[i].dense_score), b \in Unrounded(ret[i].bm25_score) :
                   ret[i].hybrid_score = RoundHybrid(d * DenseWeight + b * Bm25Weight)
            /\ ret[i].score = ret[i].hybrid_score

\* a ranked entry whose hybrid score is not the one its returned fields give
C6_Witness ==
    /\ SearchReturned /\ path = "dense"
    /\ \E i \in DOMAIN ret :
           /\ ret[i].hybrid_score > 0
           /\ ret[i].hybrid_score #
                  RoundHybrid(ret[i].dense_score * DenseWeight + ret[i].bm25_score * Bm25Weight)

\* C7: the documents of a non-empty extra_corpus are scored with the candidates
\* and can appear in the result: when top_k leaves room for every candidate and
\* every extra document, each extra document's id is in the result.
C7_ExtraMerged ==
    (/\ SearchReturned /\ path \in {"dense", "fallback"}
     /\ args.extra_corpus # None
     /\ args.top_k >= Len(args.extra_corpus)
                        + (IF path = "dense" THEN Len(store) ELSE Len(DefaultCorpus)))
        => \A i \in DOMAIN args.extra_corpus : args.extra_corpus[i].id \in RetIds

EntryCount(entries, id) == Cardinality({k \in DOMAIN entries : entries[k].id = id})
SeededOnce(entries) == \A id \in DefaultIds : EntryCount(entries, id) = 1
Seeding == op = "ensure_seed_documents"

Added == op = "add_texts"
StoredAs(entries, id, text) ==
    \E k \in DOMAIN entries : entries[k].id = id /\ entries[k].text = text

\* C9: add_texts is atomic and surfaces failure: a call whose embedding or
\* storage write fails raises; a call that raises leaves the index unchanged;
\* and a call stores either all its texts, as new entries, or none.
C9_AddTextsAtomic ==
    [][Added' =>
          /\ (args'.texts # <<>> /\ args'.fault \in {"embed", "add"})
                => status' = "raised"
          /\ status' = "raised" => store' = store
          /\ \/ store' = store
             \/ /\ Len(store') = Len(store) + Len(args'.texts)
                /\ \A i \in DOMAIN args'.texts :
                       StoredAs(store', ret'[i], args'.texts[i])]_vars

\* C10: add_texts returns one id per text, in order: the i-th text is stored
\* under the i-th returned id, supplied ids are returned unchanged, generated
\* ids are pairwise distinct.
C10_IdsInInputOrder ==
    (Added /\ status = "returned") =>
        /\ Len(ret) = Len(args.texts)
        /\ \A i \in DOMAIN ret : StoredAs(store, ret[i], args.texts[i])
        /\ (args.ids # None /\ args.texts # <<>>) => ret = args.ids
        /\ args.ids = None => \A i, j \in DOMAIN ret : i # j => ret[i] # ret[j]

Deleted == op = "delete"

\* C11: delete never propagates a failure: for every id sequence, ids absent
\* from the collection included, and every failure of the storage, a failure
\* to obtain the collection included, delete returns normally.
C11_DeleteNeverRaises == Deleted => status = "returned"

Scored == op = "_bm25_search"
RawScores == GetScores(Tokenized(args.corpus), args.query)

\* C13: for every non-empty corpus and query the lexical scorer returns one
\* score per distinct document id; the greatest normalized score is 1.0 unless
\* every raw score is 0, and then every normalized score is 0.0.
C13_NormalizedMaxIsOne ==
    (Scored /\ args.corpus # <<>>) =>
        /\ status = "returned"
        /\ DOMAIN ret = {args.corpus[i].id : i \in DOMAIN args.corpus}
        /\ IF \A i \in DOMAIN RawScores : RawScores[i] = 0
           THEN \A id \in DOMAIN ret : ret[id] = 0
           ELSE /\ \E id \in DOMAIN ret : ret[id] = One
                /\ \A id \in DOMAIN ret : ret[id] <= One

\* C14: a search that fell back because the query embedding or the vector query
\* failed returns with every score 0.0: dense_score, bm25_score, hybrid_score
\* and score of every entry, whatever the query shares with the default corpus.
C14_FallbackScoresZero ==
    (Searched /\ path = "fallback") =>
        /\ status = "returned"
        /\ \A i \in DOMAIN ret :
               /\ ret[i].dense_score = 0 /\ ret[i].bm25_score = 0
               /\ ret[i].hybrid_score = 0 /\ ret[i].score = 0

\* C14 as amended: a search that fell back because the query embedding or the
\* vector query failed returns; every entry has dense_score 0.0 and no dense
\* distance; bm25_score is the lexical score of the query against the default
\* corpus, never negative and 0.0 for an entry that shares no token with the
\* query, and
\* hybrid_score and score are round(0.4 * b, 4) of the unrounded lexical score b.
C14_FallbackLexicalOnly ==
    (Searched /\ path = "fallback") =>
        /\ status = "returned"
        /\ \A i \in DOMAIN ret :
               /\ ret[i].dense_score = 0 /\ ret[i].dense_distance = None
               /\ ret[i].bm25_score >= 0
               /\ Range(Tokenize(ret[i].text)) \cap Range(Tokenize(args.query_text)) = {}
                      => ret[i].bm25_score = 0
               /\ \E b \in Unrounded(ret[i].bm25_score) :
                      ret[i].hybrid_score = RoundHybrid(b * Bm25Weight)
               /\ ret[i].score = ret[i].hybrid_score

\* a fallback search that returned a default document the query matches, with
\* hybrid score 0.4, and one it does not match, with hybrid score 0.0
C14_Witness ==
    /\ SearchReturned /\ path = "fallback"
    /\ \E i, j \in DOMAIN ret :
           /\ ret[i].bm25_score = One /\ 10 * ret[i].hybrid_score = Bm25Weight * One
           /\ ret[j].bm25_score = 0 /\ ret[j].hybrid_score = 0

\* C15: when the vector query answers with no candidate, search returns the
\* first top_k documents of the default corpus in corpus order, every score
\* 0.0, and the lexical scorer takes no part: no query makes the call raise or
\* moves an entry.
C15_EmptyCandidateFallback ==
    (Searched /\ path = "empty") =>
        /\ status = "returned"
        /\ Len(ret) = Min(args.top_k, Len(DefaultCorpus))
        /\ \A i \in DOMAIN ret :
               /\ ret[i].id = DefaultCorpus[i].id
               /\ ret[i].text = DefaultCorpus[i].text
               /\ ret[i].dense_score = 0 /\ ret[i].bm25_score = 0
               /\ ret[i].hybrid_score = 0 /\ ret[i].score = 0

\* a search of an empty collection, with a query that matches a default
\* document beyond the first, returning more than one entry
C15_Witness ==
    /\ SearchReturned /\ path = "empty" /\ store = <<>>
    /\ args.query_text = Words2("A", "b")
    /\ Len(ret) >= 2

Generated ==
    /\ resp.request.path = "/generate" /\ resp.request.method = "POST"
    /\ ~GenerateRejects(resp.request)

\* C16: a /generate request with text, whose intent is classified as one of the
\* four labels, is answered 200 after exactly the handler of that label ran, and
\* the response carries that intent and tool_calls = [intent].
C16_IntentRouting ==
    Generated =>
        /\ resp.status = 200
        /\ resp.handlers = <<resp.request.classified>>
        /\ resp.body.intent = resp.request.classified
        /\ resp.body.tool_calls = <<resp.request.classified>>

\* C17: a /generate request with text succeeds and leaves as the two newest
\* history rows its user entry and then its assistant entry, both with the
\* intent of the request; GET /history with limit n answers the min(n, total)
\* newest rows, oldest first.
C17_HistoryLog ==
    /\ Generated =>
           /\ resp.status = 200
           /\ Len(history) >= 2
           /\ history[Len(history) - 1].role = "user"
           /\ history[Len(history)].role = "assistant"
           /\ history[Len(history) - 1].intent = resp.request.classified
           /\ history[Len(history)].intent = resp.request.classified
    /\ (resp.request.path = "/history" /\ resp.status = 200) =>
           /\ Len(resp.body) = Min(resp.request.limit, Len(history))
           /\ \A i \in DOMAIN resp.body :
                  resp.body[i] = history[Len(history) - Len(resp.body) + i]

\* C18: POST /jobs with a non-empty job text is answered 201 with inserted > 0
\* and a non-empty list of the inserted ids.
C18_JobsCreated ==
    (/\ resp.request.path = "/jobs" /\ resp.request.method = "POST"
     /\ "text" \in DOMAIN resp.request /\ resp.request.text # <<>>)
        => /\ resp.status = 201
           /\ resp.body.inserted > 0
           /\ resp.body.ids # <<>>

\* C19: when several threads call get_collection() before any call has
\* completed, the client and the collection are each constructed at most once
\* and every caller obtains the same collection object.
C19_SingleInitialization ==
    /\ built.client <= 1
    /\ built.collection <= 1
    /\ \A t, u \in Threads :
           (pc[t] = "done" /\ pc[u] = "done") => got[t].collection = got[u].collection

Recommended == op = "run_agent" /\ args.intent = "recommend_job"
CallsBy(by) == {k \in DOMAIN trace : trace[k].by = by}
RetrieverCalls == {k \in DOMAIN trace : trace[k].fn = "retriever"}

\* h is r without the whitespace around it
Trimmed(r, h) ==
    /\ h # <<>> => ~IsSpace(h[1]) /\ ~IsSpace(h[Len(h)])
    /\ \E i \in 0..Len(r) :
           /\ i + Len(h) <= Len(r)
           /\ SubSeq(r, i + 1, i + Len(h)) = h
           /\ \A n \in (1..i) \cup ((i + Len(h) + 1)..Len(r)) : IsSpace(r[n])

\* C20: query expansion asks the llm exactly once and does not retry; its
\* stripped reply is the hyde text handed to the retriever; when the call
\* fails the failure leaves hyde_query and recommend_job, and the retriever is
\* not called.
C20_HydeNoRetryPropagates ==
    Recommended =>
        /\ Cardinality(CallsBy("hyde_query")) = 1
        /\ args.llm[1] = None => (status = "raised" /\ RetrieverCalls = {})
        /\ args.llm[1] # None =>
               /\ Cardinality(RetrieverCalls) = 1
               /\ \A k \in RetrieverCalls :
                      Trimmed(args.llm[1][1], trace[k].hyde_text)

\* a recommendation whose expansion call failed although a later call of the
\* llm would have succeeded
C20_Witness ==
    /\ Recommended /\ status = "raised"
    /\ args.llm[1] = None /\ args.llm[2] # None
    /\ Len(trace) = 1

\* C21: the lexical scorer never raises: for every query, a query without
\* tokens included, and every corpus, the empty corpus and a corpus of empty
\* texts included, it returns a mapping; the empty corpus gives the empty mapping.
C21_ScorerNeverRaises ==
    Scored =>
        /\ status = "returned"
        /\ args.corpus = <<>> => ret = <<>>

Started == cache.collection # None

\* C22: once startup has completed with a reachable index, every default
\* document id is stored in the index, and the first search after it, with a
\* working embedding and room for the whole collection, returns the default
\* documents through the dense path.
C22_SeededAtStartup ==
    /\ (op = "on_startup" /\ status = "returned" /\ args.fault = "none")
           => DefaultIds \subseteq StoredIds(store)
    /\ (SearchReturned /\ Started /\ path # "fallback" /\ args.top_k >= NumDefault
        /\ args.top_k >= Len(store))
           => path = "dense" /\ DefaultIds \subseteq RetIds

Chunking == op = "chunk_text"

\* the chunks appended so far are at most chunk_size long and start at
\* strictly increasing offsets, each no later than the end of the one before
ChunksInOrder ==
    /\ \A i \in DOMAIN ret : Len(ret[i].text) <= args.chunk_size
    /\ \A i \in 1..(Len(ret) - 1) :
           /\ ret[i].start < ret[i + 1].start
           /\ ret[i + 1].start <= ret[i].start + Len(ret[i].text)

\* the chunks returned cover the text from its first character to its last
ChunksCover ==
    (status = "returned" /\ args.text # <<>>) =>
        /\ ret # <<>>
        /\ ret[1].start = 0
        /\ ret[Len(ret)].start + Len(ret[Len(ret)].text) = Len(args.text)

\* C29: chunk_text terminates for every text, chunk_size >= 1 and overlap >= 0;
\* its chunks are at most chunk_size long, start at strictly increasing
\* offsets, and cover the text, the last chunk ending at the end of the text.
C29_ChunkTextTerminates ==
    /\ [](Chunking => ChunksInOrder /\ ChunksCover)
    /\ (Chunking ~> status = "returned")

\* C25: every list search returns holds at most one record per document id,
\* whatever the dense candidates, the default corpus fallback and the extra
\* documents are, an extra document under the id of a candidate included.
C25_OneRecordPerId ==
    SearchReturned => \A i, j \in DOMAIN ret : i # j => ret[i].id # ret[j].id

ExtraIds ==
    IF args.extra_corpus = None THEN {}
    ELSE {args.extra_corpus[i].id : i \in DOMAIN args.extra_corpus}

\* a dense search given an extra document under the id of a record it returns
C25_Witness ==
    /\ SearchReturned /\ path = "dense"
    /\ Len(ret) >= 2
    /\ ExtraIds \cap RetIds # {}

\* the place of an id in the collection and in the default corpus
StorePos(id) == CHOOSE k \in DOMAIN store : store[k].id = id
DefaultPos(id) == CHOOSE k \in DOMAIN DefaultCorpus : DefaultCorpus[k].id = id

\* x was merged before y: the index returned it first (a smaller distance, or
\* the same distance and an earlier place in the collection), or it comes
\* first in the default corpus
MergedBefore(x, y) ==
    IF path = "dense"
    THEN \/ x.dense_distance[1] < y.dense_distance[1]
         \/ /\ x.dense_distance[1] = y.dense_distance[1]
            /\ StorePos(x.id) < StorePos(y.id)
    ELSE DefaultPos(x.id) < DefaultPos(y.id)

\* C26: two records of exactly equal rounded hybrid_score appear in the result
\* in the order in which the merge produced them, although the sort is
\* descending.
C26_TiesKeepMergeOrder ==
    SearchReturned =>
        \A i, j \in DOMAIN ret :
            (i < j /\ ret[i].hybrid_score = ret[j].hybrid_score)
                => MergedBefore(ret[i], ret[j])

\* a dense search that moved a later candidate to the front and returned two
\* candidates of equal hybrid score behind it
C26_Witness ==
    /\ SearchReturned /\ path = "dense" /\ Len(ret) >= 3
    /\ ret[2].hybrid_score = ret[3].hybrid_score
    /\ ret[1].hybrid_score > ret[2].hybrid_score
    /\ MergedBefore(ret[2], ret[1])

Retrieved == op = "retriever"
Recommending == op = "recommend_job"
EmbedCalls == {k \in DOMAIN trace : trace[k].fn = "embedder.embed"}
ScorerCalls == {k \in DOMAIN trace : trace[k].fn = "_bm25_search"}
StoreCorpus == [i \in DOMAIN store |-> [id |-> store[i].id, text |-> store[i].text]]

\* the lexical scorer is given the literal query, and the bm25_score of every
\* record of a dense search is the one the literal query gives over the
\* candidates, whatever the override text is
LexicalFromQueryOnly ==
    Retrieved =>
        /\ \A k \in ScorerCalls : trace[k].query = args.query_text
        /\ (status = "returned" /\ path = "dense") =>
               \A i \in DOMAIN ret :
                   ret[i].bm25_score =
                       Round4(Bm25Search(args.query_text, StoreCorpus)[ret[i].id])

\* the override text handed to the retriever is neither the reply nor the
\* text of a source returned to the user, and every source names a document
OverrideHidden ==
    (Recommending /\ status = "returned") =>
        \A k \in RetrieverCalls :
            /\ trace[k].hyde_text # <<>> => ret.text # trace[k].hyde_text
            /\ \A i \in DOMAIN ret.meta.sources :
                   /\ ret.meta.sources[i].text # trace[k].hyde_text
                   /\ ret.meta.sources[i].source \in StoredIds(store) \cup DefaultIds

\* C24 as claimed: search embeds the override text when it is not null and the
\* literal query otherwise; the lexical scorer always receives the literal
\* query, so the bm25_score of an id does not change with the override text;
\* the override text never appears in the reply or the sources.
C24_OverrideWhenNotNull ==
    /\ Retrieved =>
           \A k \in EmbedCalls :
               trace[k].text = IF args.hyde_text # None THEN args.hyde_text[1]
                               ELSE args.query_text
    /\ LexicalFromQueryOnly
    /\ OverrideHidden

\* C24 as amended: search embeds the override text when it is neither null nor
\* empty, and the literal query otherwise; the rest as claimed.
C24_OverrideWhenNotEmpty ==
    /\ Retrieved =>
           \A k \in EmbedCalls :
               trace[k].text = IF args.hyde_text \notin {None, Some(<<>>)}
                               THEN args.hyde_text[1] ELSE args.query_text
    /\ LexicalFromQueryOnly
    /\ OverrideHidden

\* a dense search that embedded an override text sharing no token with the
\* query and returned a record the literal query matches
C24_Witness ==
    /\ Retrieved /\ status = "returned" /\ path = "dense"
    /\ args.hyde_text = Some(Words2("c", "d"))
    /\ \E k \in EmbedCalls : trace[k].text = Words2("c", "d")
    /\ \E k \in ScorerCalls : trace[k].query = args.query_text
    /\ \E i \in DOMAIN ret : ret[i].bm25_score = One

\* ---------------------------------------------------------------- generate
Finished(r) == reqs[r].pc = "done"
Temporary(r) == reqs[r].pc # "idle" /\ ~reqs[r].request.persist_documents

FailsNow(r) == reqs[r].pc # "done" /\ reqs'[r].pc = "done" /\ reqs'[r].code # 200
InPairs(rows) ==
    /\ Len(rows) % 2 = 0
    /\ \A i \in DOMAIN rows : rows[i].role = IF i % 2 = 1 THEN "user" ELSE "assistant"

\* C28: a /generate request that ends with an error (422, 500 of the intent
\* classification, 500 of the agent) adds no history row, and the history
\* never holds a user row without its assistant row.
C28_FailedRequestKeepsHistory ==
    /\ [](InPairs(history))
    /\ [][\A r \in Requests : FailsNow(r) => history' = history]_vars

\* a request answered 200 wrote its two rows, and after it requests were
\* answered 422 and 500 (the agent raised)
C28_Witness ==
    \E a \in Requests : \E b \in Requests \ {a} :
        /\ reqs[a].code = 200
        /\ reqs[b].code = 500 /\ reqs[b].request.fault = "agent"
        /\ Len(history) = 2

MockTurns(rows) ==
    Cardinality({i \in DOMAIN rows :
                    rows[i].role = "assistant" /\ rows[i].intent = "mock_interview"})
CallsMock(r) ==
    /\ reqs[r].pc = "agent" /\ reqs'[r].pc # "agent"
    /\ reqs[r].request.classified = "mock_interview"

====
